---------------------------- MODULE Spec2Model ----------------------------
(***************************************************************************)
(* The recursive tree-to-code compiler of src/compiler/recursive.cc:        *)
(* ExtractCutPoints, the NoQuantize and Quantize policies, SplitCondition,  *)
(* WalkTree_ and Export, together with the execution of the emitted         *)
(* predict_margin function on one input record.                             *)
(*                                                                          *)
(* Floating-point values are modelled by integers (floats below 2^24 that   *)
(* hold an integer exactly).  The text a stream prints for a float, and the *)
(* value the C compiler reads back from that text, is StreamFormat.         *)
(* Node id n of a tree is element n+1 of the tree's node sequence; feature  *)
(* id f is element f+1 of a per-feature sequence.                           *)
(***************************************************************************)
EXTENDS Integers, Sequences, FiniteSets, TLC

VARIABLES model, quantize_flag, annotate_in, annotation_file,
          pc, cut_pts, function, tables, hint_macros, oob,
          input, data, i, tree_id, sum, contrib, reads, result

vars == <<model, quantize_flag, annotate_in, annotation_file,
          pc, cut_pts, function, tables, hint_macros, oob,
          input, data, i, tree_id, sum, contrib, reads, result>>

(***************************************************************************)
(* Bounds of the model.                                                     *)
(***************************************************************************)
NumFeatures == 2
MaxTrees == 2
MaxSplits == 2
MaxCutSplits == 3

(***************************************************************************)
(* Program constants.                                                       *)
(***************************************************************************)
StreamPrecision == 6
(* The sentinel of "below every cut point" set to the missing marker.       *)
BelowFirstCodeAsMarker == 0 - 1

BelowFirstCode == -10
MissingMarker == -1

Features == 0 .. (NumFeatures - 1)
Ops == {"<", "<=", ">", ">="}

(***************************************************************************)
(* Small helpers.                                                           *)
(***************************************************************************)
RECURSIVE Pow10(_)
Pow10(n) == IF n = 0 THEN 1 ELSE 10 * Pow10(n - 1)

RECURSIVE NumDigits(_)
NumDigits(a) == IF a < 10 THEN 1 ELSE 1 + NumDigits(a \div 10)

Abs(x) == IF x < 0 THEN 0 - x ELSE x

RECURSIVE SumSeq(_)
SumSeq(s) == IF s = <<>> THEN 0 ELSE Head(s) + SumSeq(Tail(s))

Min(S) == CHOOSE x \in S : \A y \in S : x <= y

(* The value of the text `oss << value` prints for a float with the        *)
(* stream's default precision: value rounded to StreamPrecision            *)
(* significant digits (ties to even, as printf's %g does).                 *)
StreamFormat(x) ==
  LET a == Abs(x)
  IN IF a < Pow10(StreamPrecision) THEN x
     ELSE LET s == Pow10(NumDigits(a) - StreamPrecision)
              q == a \div s
              r == a % s
              up == (2 * r > s) \/ (2 * r = s /\ q % 2 = 1)
              m == (IF up THEN q + 1 ELSE q) * s
          IN IF x < 0 THEN 0 - m ELSE m

(* semantic::OpName(op) applied to two operands                            *)
Cmp(op, a, b) ==
  CASE op = "<"  -> a < b
    [] op = "<=" -> a <= b
    [] op = ">"  -> a > b
    [] op = ">=" -> a >= b

(***************************************************************************)
(* The tree data model (Tree::Node accessors used by the compiler).         *)
(***************************************************************************)
LeafNode(v) ==
  [is_leaf |-> TRUE, leaf_value |-> v, split_index |-> 0, op |-> "<",
   threshold |-> 0, default_left |-> FALSE, cleft |-> -1, cright |-> -1]

SplitNode(s, l, r) ==
  [is_leaf |-> FALSE, leaf_value |-> 0, split_index |-> s.split_index,
   op |-> s.op, threshold |-> s.threshold, default_left |-> s.default_left,
   cleft |-> l, cright |-> r]

NodeAt(tree, nid) == tree[nid + 1]

NodeIds(tree) == 0 .. (Len(tree) - 1)

SplitIds(tree) == {n \in NodeIds(tree) : ~NodeAt(tree, n).is_leaf}

LeafIds(tree) == {n \in NodeIds(tree) : NodeAt(tree, n).is_leaf}

(* Every leaf of a generated tree carries a value of its own.               *)
LeafValueAt(nid) == nid + 1

(* A leaf turned into a split whose two children are appended as leaves.    *)
Expand(tree, nid, s) ==
  LET n == Len(tree)
  IN [tree EXCEPT ![nid + 1] = SplitNode(s, n, n + 1)]
       \o <<LeafNode(LeafValueAt(n)), LeafNode(LeafValueAt(n + 1))>>

RECURSIVE TreesWith(_, _)
TreesWith(k, S) ==
  IF k = 0 THEN {<<LeafNode(LeafValueAt(0))>>}
  ELSE UNION {{Expand(t, n, s) : n \in LeafIds(t), s \in S}
              : t \in TreesWith(k - 1, S)}

RECURSIVE EnsemblesWith(_, _, _)
EnsemblesWith(n, budget, S) ==
  IF n = 0 THEN {<<>>}
  ELSE UNION {{<<t>> \o e : t \in TreesWith(k, S),
                           e \in EnsemblesWith(n - 1, budget - k, S)}
              : k \in 0 .. budget}

Ensembles(maxTrees, maxSplits, S) ==
  UNION {EnsemblesWith(n, maxSplits, S) : n \in 1 .. maxTrees}

Model(trees) == [num_features |-> NumFeatures, trees |-> trees]

(***************************************************************************)
(* ExtractCutPoints: a queue-based walk of every tree that inserts each     *)
(* split's threshold into its feature's ordered set, then copies every set  *)
(* out in ascending order.                                                  *)
(***************************************************************************)
RECURSIVE SortedSeq(_)
SortedSeq(S) ==
  IF S = {} THEN <<>> ELSE LET m == Min(S) IN <<m>> \o SortedSeq(S \ {m})

(* ExtractTree without Q.push(node.cright()): right subtrees are skipped.   *)
RECURSIVE ExtractTreeLeftOnly(_, _, _)
ExtractTreeLeftOnly(tree, Q, thresh) ==
  IF Q = <<>> THEN thresh
  ELSE LET nid == Head(Q)
           node == NodeAt(tree, nid)
       IN IF ~node.is_leaf
          THEN ExtractTreeLeftOnly(tree,
                 Tail(Q) \o <<node.cleft>>,
                 [thresh EXCEPT ![node.split_index + 1] = @ \cup {node.threshold}])
          ELSE ExtractTreeLeftOnly(tree, Tail(Q), thresh)

RECURSIVE ExtractTree(_, _, _)
ExtractTree(tree, Q, thresh) ==
  IF Q = <<>> THEN thresh
  ELSE LET nid == Head(Q)
           node == NodeAt(tree, nid)
       IN IF ~node.is_leaf
          THEN ExtractTree(tree,
                 Tail(Q) \o <<node.cleft, node.cright>>,
                 [thresh EXCEPT ![node.split_index + 1] = @ \cup {node.threshold}])
          ELSE ExtractTree(tree, Tail(Q), thresh)

RECURSIVE ExtractTrees(_, _, _)
ExtractTrees(trees, k, thresh) ==
  IF k > Len(trees) THEN thresh
  ELSE ExtractTrees(trees, k + 1, ExtractTree(trees[k], <<0>>, thresh))

ExtractCutPoints(m) ==
  LET thresh == ExtractTrees(m.trees, 1, [f \in 1 .. m.num_features |-> {}])
  IN [f \in 1 .. m.num_features |-> SortedSeq(thresh[f])]

(* Metadata::Init *)
MetadataInit(m, extract_cut_pts) ==
  [num_features |-> m.num_features,
   cut_pts |-> IF extract_cut_pts THEN ExtractCutPoints(m) ELSE <<>>]


(***************************************************************************)
(* The input record: an array of union Entry slots.  A slot holds the       *)
(* missing marker, a float (fvalue) or, after preprocessing, a quantized    *)
(* code (qvalue) in the same storage.                                       *)
(***************************************************************************)
MissingSlot == [tag |-> "missing", val |-> MissingMarker]

FloatSlot(v) == [tag |-> "f", val |-> v]

CodeSlot(c) == [tag |-> "q", val |-> c]

(* data[i].missing != -1 : the int view of the slot.  No float of the      *)
(* model (none is a NaN) has the marker's all-ones bit pattern.             *)
PresentTest(slot) ==
  CASE slot.tag = "missing" -> FALSE
    [] slot.tag = "q" -> slot.val # MissingMarker
    [] slot.tag = "f" -> TRUE

Records(Vals) ==
  [1 .. NumFeatures -> {MissingSlot} \cup {FloatSlot(v) : v \in Vals}]

(***************************************************************************)
(* common::binary_search and common::FloatToString                          *)
(***************************************************************************)
(* Exact-match search in a sorted list: the 0-based position of val, or     *)
(* Len(v) (the end iterator) when val is not in the list.                   *)
binary_search(v, val) ==
  LET lower == Cardinality({k \in 1 .. Len(v) : v[k] < val})
  IN IF lower < Len(v) /\ v[lower + 1] = val THEN lower ELSE Len(v)

FloatToString(v) == v

(***************************************************************************)
(* The two policies.                                                        *)
(***************************************************************************)
(* NoQuantize::NumericAdapter : "data[f].fvalue op <threshold>"             *)
NoQuantizeNumericAdapter(op, split_index, threshold) ==
  [field |-> "fvalue", index |-> split_index, op |-> op,
   rhs |-> StreamFormat(threshold), check |-> TRUE]

(* Quantize::NumericAdapter : "data[f].qvalue op <2 * position>", with the  *)
(* CHECK(loc != v.end()) kept as the field check.                           *)
(* QuantizeNumericAdapter without the "* 2": the literal is the position.   *)
QuantizeNumericAdapterPosition(cutpts, op, split_index, threshold) ==
  LET v == cutpts[split_index + 1]
      loc == binary_search(v, threshold)
  IN [field |-> "qvalue", index |-> split_index, op |-> op,
      rhs |-> loc, check |-> (loc # Len(v))]

QuantizeNumericAdapter(cutpts, op, split_index, threshold) ==
  LET v == cutpts[split_index + 1]
      loc == binary_search(v, threshold)
  IN [field |-> "qvalue", index |-> split_index, op |-> op,
      rhs |-> loc * 2, check |-> (loc # Len(v))]

NumericAdapter(flag, cutpts, op, split_index, threshold) ==
  IF flag THEN QuantizeNumericAdapter(cutpts, op, split_index, threshold)
  ELSE NoQuantizeNumericAdapter(op, split_index, threshold)

(* Quantize::Preamble : the flattened threshold table, each feature's       *)
(* offset and each feature's length.  NoQuantize declares no table.         *)
RECURSIVE Flatten(_)
Flatten(ss) == IF ss = <<>> THEN <<>> ELSE Head(ss) \o Flatten(Tail(ss))

Preamble(flag, info) ==
  IF flag
  THEN [threshold |-> Flatten([f \in 1 .. Len(info.cut_pts) |->
                        [k \in 1 .. Len(info.cut_pts[f]) |->
                            StreamFormat(info.cut_pts[f][k])]]),
        th_begin |-> [f \in 1 .. Len(info.cut_pts) |->
                        SumSeq([g \in 1 .. (f - 1) |-> Len(info.cut_pts[g])])],
        th_len |-> [f \in 1 .. Len(info.cut_pts) |-> Len(info.cut_pts[f])]]
  ELSE [threshold |-> <<>>, th_begin |-> <<>>, th_len |-> <<>>]

(* Preprocessing(): empty for NoQuantize, the quant_preamble loop over      *)
(* i < num_features for Quantize.                                           *)
Preprocessing(flag, info) ==
  IF flag THEN <<[loop_to |-> info.num_features]>> ELSE <<>>

(***************************************************************************)
(* The emitted quantize helper.  array[k] is threshold[th_begin[fid] + k];  *)
(* a read past the end of the table yields an indeterminate value g.        *)
(***************************************************************************)
ArrayIndex(tb, fid, k) == tb.th_begin[fid + 1] + k

ArrayRead(tb, fid, k, g) ==
  IF ArrayIndex(tb, fid, k) < Len(tb.threshold)
  THEN tb.threshold[ArrayIndex(tb, fid, k) + 1]
  ELSE g

RECURSIVE quantize_loop(_, _, _, _, _, _, _)
quantize_loop(tb, fid, g, val, low, high, rd) ==
  IF low + 1 < high
  THEN LET mid == (low + high) \div 2
           mval == ArrayRead(tb, fid, mid, g)
           rd2 == rd \cup {ArrayIndex(tb, fid, mid)}
       IN IF val = mval
          THEN [returned |-> TRUE, ret |-> mid * 2, low |-> low, high |-> high,
                reads |-> rd2]
          ELSE IF val < mval
               THEN quantize_loop(tb, fid, g, val, low, mid, rd2)
               ELSE quantize_loop(tb, fid, g, val, mid, high, rd2)
  ELSE [returned |-> FALSE, ret |-> 0, low |-> low, high |-> high, reads |-> rd]

quantize(tb, fid, g, val) ==
  LET len == tb.th_len[fid + 1]
      rd0 == {ArrayIndex(tb, fid, 0)}
  IN IF val < ArrayRead(tb, fid, 0, g)
     THEN [ret |-> BelowFirstCode, reads |-> rd0]
     ELSE LET l == quantize_loop(tb, fid, g, val, 0, len, rd0)
              rd1 == l.reads \cup {ArrayIndex(tb, fid, l.low)}
          IN IF l.returned THEN [ret |-> l.ret, reads |-> l.reads]
             ELSE IF ArrayRead(tb, fid, l.low, g) = val
                  THEN [ret |-> l.low * 2, reads |-> rd1]
                  ELSE IF l.high = len
                       THEN [ret |-> len * 2, reads |-> rd1]
                       ELSE [ret |-> l.low * 2 + 1, reads |-> rd1]

(***************************************************************************)
(* SplitCondition::Compile                                                  *)
(*   default_left : !(data[f].missing != -1) || <numeric>                   *)
(*   otherwise    :  (data[f].missing != -1) && <numeric>                   *)
(***************************************************************************)
(* SplitConditionCompile with the two forms exchanged.                      *)
SplitConditionCompileExchanged(node, flag, cutpts) ==
  [connective |-> IF node.default_left THEN "present_and" ELSE "not_present_or",
   index |-> node.split_index,
   numeric |-> NumericAdapter(flag, cutpts, node.op, node.split_index,
                              node.threshold)]

SplitConditionCompile(node, flag, cutpts) ==
  [connective |-> IF node.default_left THEN "not_present_or" ELSE "present_and",
   index |-> node.split_index,
   numeric |-> NumericAdapter(flag, cutpts, node.op, node.split_index,
                              node.threshold)]

(***************************************************************************)
(* WalkTree_ : a leaf becomes "sum += <leaf value>;", a split becomes an    *)
(* IfElseBlock(condition, block of cleft, block of cright, direction).      *)
(***************************************************************************)
(* LikelyDirection with the comparison widened to >= : a tie marks the left  *)
(* branch.                                                                  *)
LikelyDirectionTieLeft(node, counts) ==
  IF counts # <<>>
  THEN LET left_count == counts[node.cleft + 1]
           right_count == counts[node.cright + 1]
       IN IF left_count >= right_count THEN "kLeft" ELSE "kRight"
  ELSE "kNone"

LikelyDirection(node, counts) ==
  IF counts # <<>>
  THEN LET left_count == counts[node.cleft + 1]
           right_count == counts[node.cright + 1]
       IN IF left_count > right_count THEN "kLeft" ELSE "kRight"
  ELSE "kNone"

PlainBlock(v) == [kind |-> "plain", add |-> v]

IfElseBlock(condition, if_block, else_block, direction) ==
  [kind |-> "ifelse", condition |-> condition, if_block |-> if_block,
   else_block |-> else_block, direction |-> direction]

(* WalkTree_ with the two child blocks handed over in the other order.      *)
RECURSIVE WalkTree_RightFirst(_, _, _, _, _)
WalkTree_RightFirst(tree, counts, nid, flag, cutpts) ==
  LET node == NodeAt(tree, nid)
  IN IF node.is_leaf
     THEN PlainBlock(FloatToString(node.leaf_value))
     ELSE IfElseBlock(SplitConditionCompile(node, flag, cutpts),
                      WalkTree_RightFirst(tree, counts, node.cright, flag, cutpts),
                      WalkTree_RightFirst(tree, counts, node.cleft, flag, cutpts),
                      LikelyDirection(node, counts))

RECURSIVE WalkTree_(_, _, _, _, _)
WalkTree_(tree, counts, nid, flag, cutpts) ==
  LET node == NodeAt(tree, nid)
  IN IF node.is_leaf
     THEN PlainBlock(FloatToString(node.leaf_value))
     ELSE IfElseBlock(SplitConditionCompile(node, flag, cutpts),
                      WalkTree_(tree, counts, node.cleft, flag, cutpts),
                      WalkTree_(tree, counts, node.cright, flag, cutpts),
                      LikelyDirection(node, counts))

WalkTree(tree, counts, flag, cutpts) == WalkTree_(tree, counts, 0, flag, cutpts)

RECURSIVE ChecksPass(_)
ChecksPass(block) ==
  IF block.kind = "plain" THEN TRUE
  ELSE /\ block.condition.numeric.check
       /\ ChecksPass(block.if_block)
       /\ ChecksPass(block.else_block)

(***************************************************************************)
(* Execution of the emitted code on a record.                               *)
(***************************************************************************)
EvalNumeric(numeric, d) ==
  LET slot == d[numeric.index + 1]
      lhs == CASE numeric.field = "fvalue" /\ slot.tag = "f" -> slot.val
               [] numeric.field = "qvalue" /\ slot.tag = "q" -> slot.val
  IN Cmp(numeric.op, lhs, numeric.rhs)

EvalCondition(c, d) ==
  IF c.connective = "not_present_or"
  THEN (~PresentTest(d[c.index + 1])) \/ EvalNumeric(c.numeric, d)
  ELSE PresentTest(d[c.index + 1]) /\ EvalNumeric(c.numeric, d)

(* if (condition) { if_block } else { else_block } *)
RECURSIVE ExecBlock(_, _)
ExecBlock(block, d) ==
  IF block.kind = "plain" THEN block.add
  ELSE IF EvalCondition(block.condition, d)
       THEN ExecBlock(block.if_block, d)
       ELSE ExecBlock(block.else_block, d)

(***************************************************************************)
(* Inputs.                                                                  *)
(***************************************************************************)
Split(f, op, t, dl) ==
  [split_index |-> f, op |-> op, threshold |-> t, default_left |-> dl]

(* Thresholds: one prints exactly, two need more than StreamPrecision       *)
(* significant digits.                                                      *)
ThrSet == {4, 1000001, 1000004}

(* Values below, at, between and above the thresholds.                      *)
ValSet == {3, 4, 1000000, 1000001, 1000002, 1000004, 1000005}

RouteThr == {1000001}

RouteVals == {1000000, 1000001, 1000002}

RouteSplits ==
  {Split(f, op, t, dl) : f \in Features, op \in Ops, t \in RouteThr,
                         dl \in BOOLEAN}

CutSplits == {Split(f, "<", t, TRUE) : f \in Features, t \in ThrSet}

AnnotSplits == {Split(0, "<", 4, TRUE)}

(* Traversal counts of an annotation.                                       *)
CountVals == {0, 1}

(* An indeterminate value read from outside an array.                       *)
Garbage == {0, 1000002}

RECURSIVE CountsProduct(_, _)
CountsProduct(trees, k) ==
  IF k > Len(trees) THEN {<<>>}
  ELSE {<<c>> \o rest : c \in [1 .. Len(trees[k]) -> CountVals],
                        rest \in CountsProduct(trees, k + 1)}

WellShaped(trees) == CountsProduct(trees, 1)

(* Annotation files: the well-shaped ones, and those with an entry or a     *)
(* count too few or too many.                                               *)
AnnotationFiles(trees) ==
  LET W == WellShaped(trees)
      n == Len(trees)
  IN W \cup {<<>>}
       \cup {SubSeq(a, 1, n - 1) : a \in W}
       \cup {Append(a, a[1]) : a \in W}
       \cup {[a EXCEPT ![k] = SubSeq(a[k], 1, Len(a[k]) - 1)] : a \in W, k \in 1 .. n}
       \cup {[a EXCEPT ![k] = Append(a[k], 0)] : a \in W, k \in 1 .. n}
       \cup {[a EXCEPT ![k] = <<>>] : a \in W, k \in 1 .. n}

NoTables == [threshold |-> <<>>, th_begin |-> <<>>, th_len |-> <<>>]

InitRest ==
  /\ pc = "init"
  /\ cut_pts = <<>>
  /\ function = <<>>
  /\ tables = NoTables
  /\ hint_macros = FALSE
  /\ oob = FALSE
  /\ input = <<>>
  /\ data = <<>>
  /\ i = 0
  /\ tree_id = 0
  /\ sum = 0
  /\ contrib = <<>>
  /\ reads = {}
  /\ result = 0

Init ==
  /\ model \in {Model(e) : e \in Ensembles(MaxTrees, MaxSplits, RouteSplits)}
  /\ quantize_flag \in BOOLEAN
  /\ annotate_in = "NULL"
  /\ annotation_file = <<>>
  /\ InitRest

InitQuant ==
  /\ model \in {Model(e) : e \in Ensembles(MaxTrees, MaxCutSplits, CutSplits)}
  /\ quantize_flag = TRUE
  /\ annotate_in = "NULL"
  /\ annotation_file = <<>>
  /\ InitRest

InitAnnot ==
  /\ model \in {Model(e) : e \in Ensembles(MaxTrees, MaxSplits, AnnotSplits)}
  /\ quantize_flag = FALSE
  /\ annotate_in \in {"NULL", "annotation.json"}
  /\ annotation_file \in IF annotate_in = "NULL" THEN {<<>>}
                         ELSE AnnotationFiles(model.trees)
  /\ InitRest

(***************************************************************************)
(* Export.                                                                  *)
(***************************************************************************)
(* The largest index WalkTree_ reads in a tree's count sequence.            *)
MaxCountRead(tree) ==
  IF SplitIds(tree) = {} THEN -1
  ELSE CHOOSE m \in NodeIds(tree) :
         /\ \E n \in SplitIds(tree) : m \in {NodeAt(tree, n).cleft, NodeAt(tree, n).cright}
         /\ \A n \in SplitIds(tree) :
              NodeAt(tree, n).cleft <= m /\ NodeAt(tree, n).cright <= m

(* What WalkTree_ sees as the counts of tree k (1-based).  annotation[k]    *)
(* read past the end of the annotation, or a count read past the end of a   *)
(* sequence, is undefined: the process dies, or the read yields             *)
(* indeterminate counts.                                                    *)
CountsSeen(annotation, k, tree) ==
  IF annotation = <<>>
  THEN {[crash |-> FALSE, oob |-> FALSE, counts |-> <<>>]}
  ELSE IF k > Len(annotation)
       THEN {[crash |-> TRUE, oob |-> TRUE, counts |-> <<>>]}
            \cup {[crash |-> FALSE, oob |-> TRUE, counts |-> c] :
                    c \in {<<>>} \cup [1 .. Len(tree) -> CountVals]}
       ELSE IF annotation[k] = <<>> \/ MaxCountRead(tree) < Len(annotation[k])
            THEN {[crash |-> FALSE, oob |-> FALSE, counts |-> annotation[k]]}
            ELSE {[crash |-> TRUE, oob |-> TRUE, counts |-> <<>>]}
                 \cup {[crash |-> FALSE, oob |-> TRUE, counts |-> annotation[k] \o pad] :
                         pad \in [1 .. (Len(tree) - Len(annotation[k])) -> CountVals]}

RECURSIVE CountsSeenAll(_, _, _)
CountsSeenAll(annotation, trees, k) ==
  IF k > Len(trees) THEN {<<>>}
  ELSE {<<c>> \o rest : c \in CountsSeen(annotation, k, trees[k]),
                        rest \in CountsSeenAll(annotation, trees, k + 1)}

Export ==
  /\ pc = "init"
  /\ \E seen \in CountsSeenAll(IF annotate_in # "NULL" THEN annotation_file ELSE <<>>,
                               model.trees, 1) :
       LET info == MetadataInit(model, quantize_flag)
           annotate == (annotate_in # "NULL")
           blocks == [k \in 1 .. Len(model.trees) |->
                        WalkTree(model.trees[k], seen[k].counts, quantize_flag,
                                 info.cut_pts)]
           crashed == \E k \in 1 .. Len(seen) : seen[k].crash
           fatal == \E k \in 1 .. Len(blocks) : ~ChecksPass(blocks[k])
           done == ~crashed /\ ~fatal
       IN /\ cut_pts' = info.cut_pts
          /\ oob' = \E k \in 1 .. Len(seen) : seen[k].oob
          /\ pc' = IF crashed THEN "crashed" ELSE IF fatal THEN "fatal" ELSE "exported"
          /\ function' = IF done
                         THEN [init_sum |-> 0,
                               preprocessing |-> Preprocessing(quantize_flag, info),
                               tree_blocks |-> blocks]
                         ELSE <<>>
          /\ tables' = IF done THEN Preamble(quantize_flag, info) ELSE NoTables
          /\ hint_macros' = (done /\ annotate)
  /\ UNCHANGED <<model, quantize_flag, annotate_in, annotation_file,
                 input, data, i, tree_id, sum, contrib, reads, result>>

(***************************************************************************)
(* predict_margin(data): sum = 0, the preprocessing loop, one block per     *)
(* tree, return sum.                                                        *)
(***************************************************************************)
Predict(Vals) ==
  /\ pc = "exported"
  /\ \E rec \in Records(Vals) :
       /\ input' = rec
       /\ data' = rec
  /\ sum' = function.init_sum
  /\ i' = 0
  /\ tree_id' = 0
  /\ pc' = IF function.preprocessing = <<>> THEN "trees" ELSE "pre"
  /\ UNCHANGED <<model, quantize_flag, annotate_in, annotation_file,
                 cut_pts, function, tables, hint_macros, oob, contrib, reads, result>>

(* One iteration of:  for (i = 0; i < num_features; ++i)                    *)
(*   if (data[i].missing != -1) data[i].qvalue = quantize(data[i].fvalue, i) *)
PreprocessStep ==
  /\ pc = "pre"
  /\ i < function.preprocessing[1].loop_to
  /\ \E g \in Garbage :
       LET q == quantize(tables, i, g, data[i + 1].val)
       IN IF PresentTest(data[i + 1])
          THEN /\ data' = [data EXCEPT ![i + 1] = CodeSlot(q.ret)]
               /\ reads' = reads \cup {<<i, r>> : r \in q.reads}
          ELSE UNCHANGED <<data, reads>>
  /\ i' = i + 1
  /\ pc' = IF i + 1 < function.preprocessing[1].loop_to THEN "pre" ELSE "trees"
  /\ UNCHANGED <<model, quantize_flag, annotate_in, annotation_file,
                 cut_pts, function, tables, hint_macros, oob, input,
                 tree_id, sum, contrib, result>>

ExecTree ==
  /\ pc = "trees"
  /\ tree_id < Len(function.tree_blocks)
  /\ LET delta == ExecBlock(function.tree_blocks[tree_id + 1], data)
     IN /\ sum' = sum + delta
        /\ contrib' = Append(contrib, delta)
  /\ tree_id' = tree_id + 1
  /\ UNCHANGED <<model, quantize_flag, annotate_in, annotation_file,
                 pc, cut_pts, function, tables, hint_macros, oob, input, data,
                 i, reads, result>>

Return ==
  /\ pc = "trees"
  /\ tree_id = Len(function.tree_blocks)
  /\ result' = sum
  /\ pc' = "done"
  /\ UNCHANGED <<model, quantize_flag, annotate_in, annotation_file,
                 cut_pts, function, tables, hint_macros, oob, input, data,
                 i, tree_id, sum, contrib, reads>>

Next ==
  \/ Export
  \/ Predict(RouteVals)
  \/ PreprocessStep
  \/ ExecTree
  \/ Return

NextQuant ==
  \/ Export
  \/ Predict(ValSet)
  \/ PreprocessStep

NextAnnot == Export

Spec == Init /\ [][Next]_vars

SpecQuant == InitQuant /\ [][NextQuant]_vars

SpecAnnot == InitAnnot /\ [][NextAnnot]_vars

(***************************************************************************)
(* Properties.                                                              *)
(***************************************************************************)
(* The emitted block of every node of a tree: the block of the root is the  *)
(* tree's block, the blocks of a split's cleft and cright are the two       *)
(* blocks WalkTree_ hands to IfElseBlock, in that order.                    *)
RECURSIVE BlocksOf(_, _, _)
BlocksOf(tree, block, nid) ==
  IF block.kind = "plain" THEN {<<nid, block>>}
  ELSE {<<nid, block>>}
         \cup BlocksOf(tree, block.if_block, NodeAt(tree, nid).cleft)
         \cup BlocksOf(tree, block.else_block, NodeAt(tree, nid).cright)

SplitBlocks(k) ==
  {nb \in BlocksOf(model.trees[k], function.tree_blocks[k], 0) :
     nb[2].kind = "ifelse"}

ShapeMismatch ==
  \/ Len(annotation_file) # Len(model.trees)
  \/ \E k \in 1 .. Len(annotation_file) :
       k <= Len(model.trees) /\ Len(annotation_file[k]) # Len(model.trees[k])

Annotated == annotate_in # "NULL"

(* C4 as stated: with counts supplied for a tree, every split's hint is     *)
(* kLeft when the left child's count is larger, kRight when the right       *)
(* child's count is larger and kNone on a tie; without counts every hint is *)
(* kNone.                                                                   *)
C4_HintNoneOnTie ==
  (pc = "exported" /\ (~Annotated \/ ~ShapeMismatch)) =>
    \A k \in 1 .. Len(model.trees) : \A nb \in SplitBlocks(k) :
      LET node == NodeAt(model.trees[k], nb[1])
          l == annotation_file[k][node.cleft + 1]
          r == annotation_file[k][node.cright + 1]
      IN IF ~Annotated THEN nb[2].direction = "kNone"
         ELSE nb[2].direction =
                (IF l > r THEN "kLeft" ELSE IF r > l THEN "kRight" ELSE "kNone")

(* C4 amended: with a count for every node of the tree, every split's hint  *)
(* is kLeft when the left child's count is larger and kRight otherwise,     *)
(* ties included; with no annotation, an empty annotation or an empty count *)
(* sequence for the tree, every hint of the tree is kNone.                  *)
C4_HintRightOnTie ==
  pc = "exported" =>
    \A k \in 1 .. Len(model.trees) : \A nb \in SplitBlocks(k) :
      LET node == NodeAt(model.trees[k], nb[1])
      IN /\ (~Annotated \/ annotation_file = <<>>) => nb[2].direction = "kNone"
         /\ (Annotated /\ k <= Len(annotation_file) /\ annotation_file[k] = <<>>)
              => nb[2].direction = "kNone"
         /\ (Annotated /\ k <= Len(annotation_file)
               /\ Len(annotation_file[k]) = Len(model.trees[k]))
              => LET l == annotation_file[k][node.cleft + 1]
                     r == annotation_file[k][node.cright + 1]
                 IN nb[2].direction = (IF l > r THEN "kLeft" ELSE "kRight")

(* A well-shaped annotation with a tie at a split, hinted kRight, and a     *)
(* split whose left count is larger, hinted kLeft.                          *)
C4_Witness ==
  /\ pc = "exported" /\ Annotated /\ ~ShapeMismatch
  /\ \E k \in 1 .. Len(model.trees) : \E nb \in SplitBlocks(k) :
       LET node == NodeAt(model.trees[k], nb[1])
       IN /\ annotation_file[k][node.cleft + 1] = annotation_file[k][node.cright + 1]
          /\ nb[2].direction = "kRight"
  /\ \E k \in 1 .. Len(model.trees) : \E nb \in SplitBlocks(k) :
       LET node == NodeAt(model.trees[k], nb[1])
       IN /\ annotation_file[k][node.cleft + 1] > annotation_file[k][node.cright + 1]
          /\ nb[2].direction = "kLeft"

(* C5: once Export has run on an annotation whose shape differs from the    *)
(* ensemble's, it has aborted with an error: no artifact, and no read       *)
(* outside the loaded sequences.                                            *)
C5_MismatchIsFatal ==
  (pc # "init" /\ Annotated /\ ShapeMismatch) => (pc = "fatal" /\ ~oob)

(* The thresholds of the split nodes, over all trees, that split on f.      *)
ThresholdsOf(f) ==
  UNION {{NodeAt(model.trees[k], n).threshold :
            n \in {m \in SplitIds(model.trees[k]) :
                     NodeAt(model.trees[k], m).split_index = f}}
         : k \in 1 .. Len(model.trees)}

SplitCountOf(f) ==
  SumSeq([k \in 1 .. Len(model.trees) |->
            Cardinality({m \in SplitIds(model.trees[k]) :
                           NodeAt(model.trees[k], m).split_index = f})])

(* C6: ExtractCutPoints returns one list per feature id; each list is       *)
(* strictly increasing and holds exactly the thresholds of the splits on    *)
(* that feature.                                                            *)
C6_CutPointsSortedExact ==
  (pc # "init" /\ quantize_flag) =>
    /\ Len(cut_pts) = model.num_features
    /\ \A f \in Features :
         LET A == cut_pts[f + 1]
         IN /\ \A p \in 1 .. (Len(A) - 1) : A[p] < A[p + 1]
            /\ {A[p] : p \in 1 .. Len(A)} = ThresholdsOf(f)

(* A feature with two cut points, one of them used by two splits, and a     *)
(* split that is the right child of another split.                          *)
C6_Witness ==
  /\ pc = "exported" /\ quantize_flag
  /\ \E f \in Features :
       Len(cut_pts[f + 1]) >= 2 /\ SplitCountOf(f) > Len(cut_pts[f + 1])
  /\ \E k \in 1 .. Len(model.trees) : \E n \in SplitIds(model.trees[k]) :
       NodeAt(model.trees[k], n).cright \in SplitIds(model.trees[k])

(* C8: under the Quantized policy the CHECK of the threshold lookup never   *)
(* fails, and the literal of every split's comparison is twice the 0-based  *)
(* index of its threshold in its feature's cut-point list.                  *)
C8_LookupSucceeds ==
  (pc # "init" /\ quantize_flag) =>
    /\ pc # "fatal"
    /\ pc = "exported" =>
         \A k \in 1 .. Len(model.trees) : \A nb \in SplitBlocks(k) :
           LET node == NodeAt(model.trees[k], nb[1])
               A == cut_pts[node.split_index + 1]
           IN \E p \in 0 .. (Len(A) - 1) :
                /\ A[p + 1] = node.threshold
                /\ nb[2].condition.numeric.rhs = 2 * p
                /\ nb[2].condition.numeric.index = node.split_index

(* A split whose threshold is not its feature's first cut point.            *)
C8_Witness ==
  /\ pc = "exported" /\ quantize_flag
  /\ \E k \in 1 .. Len(model.trees) : \E nb \in SplitBlocks(k) :
       nb[2].condition.numeric.rhs = 4

(* C9: after the preprocessing of a feature that has a cut point, a present *)
(* value has become a code that is -10 or in 0 .. 2*len, never the missing  *)
(* marker, and a missing slot is unchanged: the slot tests as missing       *)
(* exactly when it was missing in the input record.                         *)
C9_MissingPreserved ==
  (quantize_flag /\ pc \in {"pre", "trees", "done"}) =>
    \A f \in Features :
      LET len == Len(cut_pts[f + 1])
          was == input[f + 1]
          now == data[f + 1]
      IN len >= 1 =>
           IF f < i
           THEN /\ PresentTest(was) =>
                     /\ now.tag = "q"
                     /\ now.val = -10 \/ now.val \in 0 .. (2 * len)
                     /\ now.val # -1
                /\ ~PresentTest(was) => now = was
                /\ PresentTest(now) <=> PresentTest(was)
           ELSE now = was

(* A record preprocessed to the sentinel on one feature and missing on      *)
(* another, both features having cut points.                                *)
C9_Witness ==
  /\ quantize_flag /\ pc = "trees"
  /\ \E f \in Features :
       Len(cut_pts[f + 1]) >= 1 /\ PresentTest(input[f + 1]) /\ data[f + 1].val = -10
  /\ \E f \in Features :
       Len(cut_pts[f + 1]) >= 1 /\ ~PresentTest(input[f + 1])

(* C10: every read of the quantize helper is inside the flattened threshold *)
(* table, and inside the feature's own segment when the segment is not      *)
(* empty.                                                                   *)
C10_ReadsInsideTable ==
  \A fr \in reads :
    /\ 0 <= fr[2] /\ fr[2] < Len(tables.threshold)
    /\ tables.th_len[fr[1] + 1] > 0 =>
         /\ tables.th_begin[fr[1] + 1] <= fr[2]
         /\ fr[2] < tables.th_begin[fr[1] + 1] + tables.th_len[fr[1] + 1]

(* The part of C10 that the code keeps: reads of a non-empty segment stay   *)
(* inside it.                                                               *)
ReadsInsideNonEmptySegment ==
  \A fr \in reads :
    tables.th_len[fr[1] + 1] > 0 =>
      /\ tables.th_begin[fr[1] + 1] <= fr[2]
      /\ fr[2] < tables.th_begin[fr[1] + 1] + tables.th_len[fr[1] + 1]

(* C1: after preprocessing, for every feature with cut points A, every      *)
(* position p and every operator, the comparison the Quantized policy emits *)
(* for threshold A[p] has the truth value of "v op A[p]" on the value v the *)
(* input record holds for the feature.                                      *)
C1_QuantizedComparisonAgrees ==
  (quantize_flag /\ pc = "trees") =>
    \A f \in Features : \A op \in Ops :
      LET A == cut_pts[f + 1]
      IN PresentTest(input[f + 1]) =>
           \A p \in 1 .. Len(A) :
             EvalNumeric(QuantizeNumericAdapter(cut_pts, op, f, A[p]), data)
               = Cmp(op, input[f + 1].val, A[p])

(* C1 restricted to the features whose cut points all print exactly.        *)
QuantizedComparisonAgreesWhenPrintedExactly ==
  (quantize_flag /\ pc = "trees") =>
    \A f \in Features : \A op \in Ops :
      LET A == cut_pts[f + 1]
      IN (PresentTest(input[f + 1]) /\ \A p \in 1 .. Len(A) : StreamFormat(A[p]) = A[p]) =>
           \A p \in 1 .. Len(A) :
             EvalNumeric(QuantizeNumericAdapter(cut_pts, op, f, A[p]), data)
               = Cmp(op, input[f + 1].val, A[p])

(* The leaf value reached by walking a tree on a record: left when the      *)
(* slot is missing and default_left, or present and "value op threshold"    *)
(* holds; right otherwise.                                                  *)
RECURSIVE WalkDirect(_, _, _)
WalkDirect(tree, rec, nid) ==
  LET node == NodeAt(tree, nid)
      slot == rec[node.split_index + 1]
      left == IF PresentTest(slot) THEN Cmp(node.op, slot.val, node.threshold)
              ELSE node.default_left
  IN IF node.is_leaf THEN node.leaf_value
     ELSE IF left THEN WalkDirect(tree, rec, node.cleft)
          ELSE WalkDirect(tree, rec, node.cright)

(* C2: the value predict_margin returns is the sum over all trees of the    *)
(* leaf value reached by walking the tree on the input record.              *)
C2_SumConsistent ==
  pc = "done" =>
    result = SumSeq([k \in 1 .. Len(model.trees) |->
                       WalkDirect(model.trees[k], input, 0)])

(* Whether node target is in the subtree of node nid.                       *)
RECURSIVE Descends(_, _, _)
Descends(tree, nid, target) ==
  \/ nid = target
  \/ /\ ~NodeAt(tree, nid).is_leaf
     /\ \/ Descends(tree, NodeAt(tree, nid).cleft, target)
        \/ Descends(tree, NodeAt(tree, nid).cright, target)

(* The leaves of tree k whose value is what the tree's block added.         *)
ReachedLeaves(k) ==
  {n \in LeafIds(model.trees[k]) : NodeAt(model.trees[k], n).leaf_value = contrib[k]}

(* C3: on the path of every executed tree, a split whose slot is missing in *)
(* the input record is left through cleft when default_left is true and     *)
(* through cright when it is false.                                         *)
C3_MissingRoutesByDefault ==
  \A k \in 1 .. Len(contrib) :
    /\ Cardinality(ReachedLeaves(k)) = 1
    /\ \A leaf \in ReachedLeaves(k) : \A n \in SplitIds(model.trees[k]) :
         LET node == NodeAt(model.trees[k], n)
         IN (Descends(model.trees[k], n, leaf) /\ ~PresentTest(input[node.split_index + 1]))
              => Descends(model.trees[k],
                          IF node.default_left THEN node.cleft ELSE node.cright, leaf)

(* Under the Quantized policy, after preprocessing: an executed split with  *)
(* a missing slot and default_left true, and one with default_left false.   *)
C3_Witness ==
  quantize_flag /\ \A dl \in BOOLEAN :
    \E k \in 1 .. Len(contrib) : \E leaf \in ReachedLeaves(k) :
      \E n \in SplitIds(model.trees[k]) :
        LET node == NodeAt(model.trees[k], n)
        IN /\ Descends(model.trees[k], n, leaf)
           /\ ~PresentTest(input[node.split_index + 1])
           /\ node.default_left = dl

(* The tree node and the added value reached by following the emitted       *)
(* conditions of a tree's block, pairing the block taken when the condition *)
(* is true with cleft (trueIsLeft) or with cright.                          *)
RECURSIVE BranchWalk(_, _, _, _, _)
BranchWalk(tree, nid, block, d, trueIsLeft) ==
  IF block.kind = "plain" \/ NodeAt(tree, nid).is_leaf
  THEN [nid |-> nid, kind |-> block.kind,
        add |-> IF block.kind = "plain" THEN block.add ELSE 0]
  ELSE LET t == EvalCondition(block.condition, d)
           node == NodeAt(tree, nid)
       IN BranchWalk(tree,
                     IF t = trueIsLeft THEN node.cleft ELSE node.cright,
                     IF t THEN block.if_block ELSE block.else_block,
                     d, trueIsLeft)

BranchWalkAgrees(trueIsLeft) ==
  \A k \in 1 .. Len(contrib) :
    LET w == BranchWalk(model.trees[k], 0, function.tree_blocks[k], data, trueIsLeft)
    IN /\ w.kind = "plain"
       /\ NodeAt(model.trees[k], w.nid).is_leaf
       /\ NodeAt(model.trees[k], w.nid).leaf_value = w.add
       /\ contrib[k] = w.add

(* C7 as stated: the block executed when a split's condition is true is the *)
(* right child's block, the block executed when it is false the left        *)
(* child's.                                                                 *)
C7_TrueBranchIsRight == BranchWalkAgrees(FALSE)

(* C7 amended: the block executed when a split's condition is true is the   *)
(* left child's block, the block executed when it is false the right        *)
(* child's.                                                                 *)
C7_TrueBranchIsLeft == BranchWalkAgrees(TRUE)

(* Two executed trees, one whose root condition is true and one whose root  *)
(* condition is false.                                                      *)
C7_Witness ==
  \A t \in BOOLEAN :
    \E k \in 1 .. Len(contrib) :
      /\ function.tree_blocks[k].kind = "ifelse"
      /\ EvalCondition(function.tree_blocks[k].condition, data) = t

=============================================================================
